---- MODULE Spec2Model ----
(***************************************************************************)
(* The Empire Dashboard front ends of the repository as state machines.    *)
(*                                                                         *)
(* The repository holds several variants of the React component App:       *)
(*   - the "Emergent" App (COMMIT_MESSAGE_v2.0.0.md lines 660-1186) with   *)
(*     the Paintbrush panel: repository analysis / autonomous deployment   *)
(*     and the AI Command Assistant;                                       *)
(*   - the Empire Dashboard App in three variants (COMMIT_MESSAGE lines    *)
(*     64-658, frontend/src/App.js, unnamed/part_000).                     *)
(*                                                                         *)
(* A state is the React state of the mounted components plus the bag of    *)
(* HTTP requests in flight.  A step is one event handler run to its first  *)
(* await, or the continuation of a handler after its request has settled.  *)
(* Panels whose handlers touch disjoint state are followed in separate     *)
(* specifications (SpecCommand, SpecRepo, ...), each over the same         *)
(* variables.                                                              *)
(***************************************************************************)
EXTENDS Bags, FiniteSets, Integers, Sequences, TLC

VARIABLES
    net,              \* bag of HTTP requests in flight
    alert,            \* what window.alert showed in the last step ("none" if nothing)
    settled,          \* outcome of the request that settled in the last step ("none" if no request settled)
    commandInput,     \* Emergent App: text of the command textarea
    commandAnalysis,  \* Emergent App: <<>> (null) or <<analysis>>
    executionResults, \* Emergent App: list of execute-command responses
    commandHistory,   \* Emergent App: list loaded from /api/ai/command-history
    selectedRepo,     \* Emergent App: text of the repository input
    analysisResult,   \* Emergent App: <<>> (null) or <<analysis>>
    deploymentInProgress, \* Emergent App: flag that disables Analyze / Deploy
    deployments,      \* Emergent App: list loaded from /api/deployment/list
    connectionStatus, \* Emergent App: connectionStatus
    serviceUp,        \* Gateway: which services answer their connection test
    variant,          \* Dashboard: which variant of App is running
    loading,          \* Dashboard App: loading
    currentView,      \* Dashboard App: currentView
    empireStatus,     \* Dashboard App: <<>> (null) or <<data>>
    projects,         \* Dashboard App: projects
    enhancements,     \* Dashboard App: enhancements
    repositories,     \* Dashboard App: repositories
    showRepos,        \* Deployments: showRepos
    dcDeployments,    \* DeploymentCenter: deployments
    dcLoading,        \* DeploymentCenter: loading
    deploymentPlan,   \* DeploymentCenter: <<>> (null) or <<plan>>
    generatedComponent, \* DeploymentCenter: <<>> (null) or <<component>>
    mjView,           \* MusicJam (part_000): currentView of the sub navigation
    jamSessions,      \* MusicJam (part_000): jamSessions
    playlists,        \* MusicJam (part_000): playlists
    genres,           \* MusicJam (part_000): genres
    filters,          \* MusicJam (part_000): filters
    mjLoading,        \* MusicJam (part_000): loading
    showCreateForm,   \* MusicJam (part_000): showCreateForm
    formData,         \* MusicJam (part_000): formData
    now,              \* Gateway: the current day
    sessions,         \* Gateway: the jam-session collection
    projectDocs       \* Gateway: the project collection

commandVars == <<commandInput, commandAnalysis, executionResults, commandHistory>>
repoVars == <<selectedRepo, analysisResult, deploymentInProgress, deployments>>

connVars == <<connectionStatus, serviceUp>>

emergentVars == <<commandVars, repoVars, connVars>>
appVars == <<variant, loading, currentView, empireStatus, projects, enhancements, repositories>>
dcVars == <<dcDeployments, dcLoading, deploymentPlan, generatedComponent>>
mjVars == <<mjView, jamSessions, playlists, genres, filters, mjLoading, showCreateForm, formData>>
dashboardVars == <<appVars, showRepos, dcVars, mjVars>>
gatewayVars == <<now, sessions, projectDocs>>

vars == <<net, alert, settled, emergentVars, dashboardVars, gatewayVars>>

(***************************************************************************)
(* Bounds of the model.                                                    *)
(***************************************************************************)
MaxCommandRequests == 2
MaxRepoRequests == 2
MaxResults == 1

(***************************************************************************)
(* JavaScript null / a held value.                                         *)
(***************************************************************************)
Null == <<>>
Some(x) == <<x>>

InFlight(ep) == {r \in BagToSet(net) : r.ep = ep}
Room(n, max) == BagCardinality(net) + n <= max
Send(bag, r) == bag (+) SetToBag({r})
Drop(bag, r) == bag (-) SetToBag({r})

(***************************************************************************)
(* Texts are sequences of tokens; " " is white space, every other token is *)
(* a word.                                                                 *)
(***************************************************************************)
CommandTexts == { <<>>, <<" ">>, <<"status">>, <<"restart">>, <<" ", "delete">> }

RECURSIVE TrimStart(_)
TrimStart(t) ==
    IF t = <<>> THEN t
    ELSE IF Head(t) = " " THEN TrimStart(Tail(t)) ELSE t

RECURSIVE TrimEnd(_)
TrimEnd(t) ==
    IF t = <<>> THEN t
    ELSE IF t[Len(t)] = " " THEN TrimEnd(SubSeq(t, 1, Len(t) - 1)) ELSE t

\* String.prototype.trim
Trim(t) == TrimEnd(TrimStart(t))

\* !commandInput.trim()
Blank(t) == Trim(t) = <<>>

(***************************************************************************)
(* The gateway's command classifier (backend, spec section 4.1): a fixed   *)
(* keyword table gives the ordered candidate commands with a safety level; *)
(* only requests whose candidates are all "safe" are recommended for       *)
(* execution.                                                              *)
(***************************************************************************)
\* the table with the file operations filed under the harmless category
KeywordTableDeleteSafe ==
    << [keyword |-> "status",  command |-> "ps aux",            safety_level |-> "safe"],
       [keyword |-> "restart", command |-> "supervisorctl restart", safety_level |-> "caution"],
       [keyword |-> "delete",  command |-> "rm -rf",            safety_level |-> "safe"] >>

KeywordTable ==
    << [keyword |-> "status",  command |-> "ps aux",            safety_level |-> "safe"],
       [keyword |-> "restart", command |-> "supervisorctl restart", safety_level |-> "caution"],
       [keyword |-> "delete",  command |-> "rm -rf",            safety_level |-> "dangerous"] >>

Contains(text, word) == \E i \in 1..Len(text) : text[i] = word

RECURSIVE Matches(_, _)
Matches(text, k) ==
    IF k > Len(KeywordTable) THEN <<>>
    ELSE IF Contains(text, KeywordTable[k].keyword)
         THEN << [command |-> KeywordTable[k].command,
                  safety_level |-> KeywordTable[k].safety_level] >> \o Matches(text, k + 1)
         ELSE Matches(text, k + 1)

Classify(text) == Matches(text, 1)

ExecutionRecommended(cmds) ==
    /\ cmds # <<>>
    /\ \A i \in 1..Len(cmds) : cmds[i].safety_level = "safe"

\* response.data.analysis of POST /api/ai/command-analysis; the field request
\* records the natural_language_request the analysis was produced for
AnalysisOf(text) ==
    [request |-> text,
     commands |-> Classify(text),
     execution_recommended |-> ExecutionRecommended(Classify(text))]

\* response.data of POST /api/ai/execute-command
ExecutionOf(text) ==
    [status |-> IF ExecutionRecommended(Classify(text)) THEN "success" ELSE "rejected",
     request |-> text]

HistoryPayloads == { <<>>, <<"h1">> }

(***************************************************************************)
(* Emergent App: AI Command Assistant.                                     *)
(***************************************************************************)
Req(ep, arg, seen) == [ep |-> ep, arg |-> arg, seen |-> seen]

HistoryReq == Req("command-history", <<>>, <<>>)

Observe(a, s) == alert' = a /\ settled' = s

Quiet == Observe("none", "none")

\* onChange of the command textarea
SetCommandInput(t) ==
    /\ commandInput' = t
    /\ Quiet
    /\ UNCHANGED <<net, commandAnalysis, executionResults, commandHistory, repoVars, connVars, dashboardVars, gatewayVars>>

\* analyzeCommand without its check of the trimmed input
AnalyzeClickSendingBlank ==
    /\ Room(1, MaxCommandRequests)
    /\ net' = Send(net, Req("command-analysis", commandInput, <<>>))
    /\ Quiet
    /\ UNCHANGED <<commandInput, commandAnalysis, executionResults, commandHistory, repoVars, connVars, dashboardVars, gatewayVars>>

\* analyzeCommand up to its await
AnalyzeClick ==
    /\ Room(1, MaxCommandRequests)
    /\ IF Blank(commandInput)
       THEN UNCHANGED net
       ELSE net' = Send(net, Req("command-analysis", commandInput, <<>>))
    /\ Quiet
    /\ UNCHANGED <<commandInput, commandAnalysis, executionResults, commandHistory, repoVars, connVars, dashboardVars, gatewayVars>>

\* analyzeCommand after the await
AnalyzeSettle(r, outcome) ==
    /\ r \in InFlight("command-analysis")
    /\ net' = Drop(net, r)
    /\ commandAnalysis' = IF outcome = "success" THEN Some(AnalysisOf(r.arg))
                          ELSE commandAnalysis
    /\ Observe(IF outcome = "error" THEN "Command analysis failed" ELSE "none",
               outcome)
    /\ UNCHANGED <<commandInput, executionResults, commandHistory, repoVars, connVars, dashboardVars, gatewayVars>>

\* disabled predicate of the Execute button
ExecuteDisabledNoRecommendation ==
    commandAnalysis = Null

ExecuteDisabled ==
    \/ commandAnalysis = Null
    \/ ~commandAnalysis[1].execution_recommended

\* executeCommand up to its await
ExecuteClick ==
    /\ ~ExecuteDisabled
    /\ Room(1, MaxCommandRequests)
    /\ Len(executionResults) < MaxResults
    /\ IF Blank(commandInput)
       THEN UNCHANGED net
       ELSE net' = Send(net, Req("execute-command", commandInput, executionResults))
    /\ Quiet
    /\ UNCHANGED <<commandInput, commandAnalysis, executionResults, commandHistory, repoVars, connVars, dashboardVars, gatewayVars>>

\* executeCommand after the await
ExecuteSettle(r, outcome) ==
    /\ r \in InFlight("execute-command")
    /\ IF outcome = "ok"
       THEN /\ executionResults' = <<ExecutionOf(r.arg)>> \o r.seen
            /\ net' = Send(Drop(net, r), HistoryReq)
            /\ commandInput' = <<>>
            /\ commandAnalysis' = Null
            /\ Observe("none", outcome)
       ELSE /\ net' = Drop(net, r)
            /\ Observe("Command execution failed", outcome)
            /\ UNCHANGED <<executionResults, commandInput, commandAnalysis>>
    /\ UNCHANGED <<commandHistory, repoVars, connVars, dashboardVars, gatewayVars>>

\* loadCommandHistory after the await
HistorySettle(r, outcome, payload) ==
    /\ r \in InFlight("command-history")
    /\ net' = Drop(net, r)
    /\ commandHistory' = IF outcome = "success" THEN payload ELSE commandHistory
    /\ Observe("none", outcome)
    /\ UNCHANGED <<commandInput, commandAnalysis, executionResults, repoVars, connVars, dashboardVars, gatewayVars>>

(***************************************************************************)
(* useState initial values.                                                *)
(***************************************************************************)
InitialFilters == [status |-> "All", genre |-> "All Genres", sortBy |-> <<"Date", "(Soonest)">>]

InitialFormData ==
    [title |-> "", description |-> "", location |-> "", max_participants |-> "",
     date |-> "", start_time |-> "", end_time |-> "", skill_level |-> "All Levels",
     genres |-> <<>>]

\* Dashboard App
AppInitial ==
    /\ loading = TRUE
    /\ currentView = "dashboard"
    /\ empireStatus = Null
    /\ projects = <<>>
    /\ enhancements = <<>>
    /\ repositories = <<>>

\* Deployments
DeploymentsInitial == showRepos = FALSE

\* DeploymentCenter
DeploymentCenterInitial ==
    /\ dcDeployments = <<>>
    /\ dcLoading = FALSE
    /\ deploymentPlan = Null
    /\ generatedComponent = Null

\* MusicJam of part_000
MusicJamInitial ==
    /\ mjView = "jam-sessions"
    /\ jamSessions = <<>>
    /\ playlists = <<>>
    /\ genres = <<>>
    /\ filters = InitialFilters
    /\ mjLoading = FALSE
    /\ showCreateForm = FALSE
    /\ formData = InitialFormData

\* Gateway: day 0, two jam sessions in the collection
SeedSessions ==
    << [id |-> 1, date |-> 1, genres |-> <<"Rock">>, popularity |-> 2],
       [id |-> 2, date |-> 0, genres |-> <<"Jazz", "Rock">>, popularity |-> 1] >>

GatewayInitial ==
    /\ now = 0
    /\ sessions = SeedSessions
    /\ projectDocs = <<>>

\* Emergent App
Services == {"backend", "github", "gemini"}

EmergentState ==
    /\ connectionStatus = [github |-> FALSE, gemini |-> FALSE, backend |-> FALSE]
    /\ commandInput = <<>>
    /\ commandAnalysis = Null
    /\ executionResults = <<>>
    /\ commandHistory = <<>>
    /\ selectedRepo = "thataway61/YazWho-MusicJam-Emergent"
    /\ analysisResult = Null
    /\ deploymentInProgress = FALSE
    /\ deployments = <<>>

\* the useState values, with every service of the gateway answering
EmergentInitial ==
    /\ EmergentState
    /\ serviceUp = [s \in Services |-> TRUE]

\* the Emergent App is the running App
InitEmergent ==
    /\ variant = "emergent"
    /\ alert = "none"
    /\ settled = "none"
    /\ EmergentInitial
    /\ GatewayInitial
    /\ AppInitial
    /\ DeploymentsInitial
    /\ DeploymentCenterInitial
    /\ MusicJamInitial

\* after mount: loadCommandHistory() of the mount effect is in flight
InitCommand ==
    /\ InitEmergent
    /\ net = SetToBag({HistoryReq})

NextCommand ==
    \/ \E t \in CommandTexts : SetCommandInput(t)
    \/ AnalyzeClick
    \/ \E r \in BagToSet(net), o \in {"success", "not_success", "error"} : AnalyzeSettle(r, o)
    \/ ExecuteClick
    \/ \E r \in BagToSet(net), o \in {"ok", "error"} : ExecuteSettle(r, o)
    \/ \E r \in BagToSet(net), o \in {"success", "not_success", "error"}, p \in HistoryPayloads :
           HistorySettle(r, o, p)

SpecCommand == InitCommand /\ [][NextCommand]_vars

(***************************************************************************)
(* Claims about the AI Command Assistant.                                  *)
(***************************************************************************)
\* an execute-command request is put on the wire in this step
ExecuteIssued ==
    \E r \in BagToSet(net') :
        r.ep = "execute-command" /\ CopiesIn(r, net') > CopiesIn(r, net)

HoldsDangerous ==
    /\ commandAnalysis # Null
    /\ \E i \in 1..Len(commandAnalysis[1].commands) :
           commandAnalysis[1].commands[i].safety_level = "dangerous"

\* C1: an execute-command request is issued only while an analysis is held
\* and that analysis has execution_recommended true.
C1_ExecuteGated ==
    [][ExecuteIssued =>
          /\ commandAnalysis # Null
          /\ commandAnalysis[1].execution_recommended]_vars

C1_Witness ==
    /\ InFlight("execute-command") # {}
    /\ commandAnalysis # Null

C3_OnlyAnalysedTextSent ==
    [][\A r \in BagToSet(net') :
          (r.ep = "execute-command" /\ CopiesIn(r, net') > CopiesIn(r, net)) =>
              /\ commandAnalysis # Null
              /\ r.arg = commandAnalysis[1].request]_vars

\* the execute-command requests whose response is recorded in this step
ExecuteRecorded ==
    {r \in InFlight("execute-command") :
        CopiesIn(r, net') < CopiesIn(r, net) /\ settled' = "ok"}

\* C18: every successful execution is recorded, newest first: the response
\* that arrives is put in front of executionResults and every result
\* recorded before it is still there, whatever the order in which the
\* executions were issued and answered.
C18_AllExecutionsRecorded ==
    [][\A r \in ExecuteRecorded :
          executionResults' = <<ExecutionOf(r.arg)>> \o executionResults]_vars

(***************************************************************************)
(* Emergent App: Paintbrush panel, repository analysis and autonomous      *)
(* deployment.                                                             *)
(***************************************************************************)
RepoNames == { "thataway61/YazWho-MusicJam-Emergent", "thataway61/other" }

DeploymentPayloads == { <<>>, <<"d1">> }

DeploymentsReq == Req("deployment-list", <<>>, <<>>)

\* onChange of the repository input
SetSelectedRepo(name) ==
    /\ selectedRepo' = name
    /\ Quiet
    /\ UNCHANGED <<net, analysisResult, deploymentInProgress, deployments, commandVars, connVars, dashboardVars, gatewayVars>>

\* disabled predicate of the Analyze Repository button
AnalyzeRepositoryDisabled == deploymentInProgress

\* analyzeRepository up to its await
AnalyzeRepositoryClick ==
    /\ ~AnalyzeRepositoryDisabled
    /\ Room(1, MaxRepoRequests)
    /\ deploymentInProgress' = TRUE
    /\ net' = Send(net, Req("analyze-repository", <<selectedRepo>>, <<>>))
    /\ Quiet
    /\ UNCHANGED <<selectedRepo, analysisResult, deployments, commandVars, connVars, dashboardVars, gatewayVars>>

\* analyzeRepository releasing the flag at the end of the try block only
AnalyzeRepositorySettleKeepingFlag(r, outcome) ==
    /\ r \in InFlight("analyze-repository")
    /\ net' = Drop(net, r)
    /\ analysisResult' = IF outcome = "success"
                         THEN Some([repository_name |-> r.arg[1]])
                         ELSE analysisResult
    /\ deploymentInProgress' = (outcome = "error")
    /\ Observe(IF outcome = "error" THEN "Repository analysis failed" ELSE "none",
               outcome)
    /\ UNCHANGED <<selectedRepo, deployments, commandVars, connVars, dashboardVars, gatewayVars>>

\* analyzeRepository after the await, with its finally block
AnalyzeRepositorySettle(r, outcome) ==
    /\ r \in InFlight("analyze-repository")
    /\ net' = Drop(net, r)
    /\ analysisResult' = IF outcome = "success"
                         THEN Some([repository_name |-> r.arg[1]])
                         ELSE analysisResult
    /\ deploymentInProgress' = FALSE
    /\ Observe(IF outcome = "error" THEN "Repository analysis failed" ELSE "none",
               outcome)
    /\ UNCHANGED <<selectedRepo, deployments, commandVars, connVars, dashboardVars, gatewayVars>>

\* disabled predicate of the Deploy Autonomously button
DeployDisabledNoAnalysis == deploymentInProgress

DeployDisabled == deploymentInProgress \/ analysisResult = Null

\* executeAutonomousDeployment up to its await
DeployClick ==
    /\ ~DeployDisabled
    /\ Room(1, MaxRepoRequests)
    /\ deploymentInProgress' = TRUE
    /\ net' = Send(net, Req("autonomous-deploy", <<selectedRepo>>, <<>>))
    /\ Quiet
    /\ UNCHANGED <<selectedRepo, analysisResult, deployments, commandVars, connVars, dashboardVars, gatewayVars>>

\* executeAutonomousDeployment after the await, with its finally block
DeploySettle(r, outcome) ==
    /\ r \in InFlight("autonomous-deploy")
    /\ net' = IF outcome = "success" THEN Send(Drop(net, r), DeploymentsReq)
              ELSE Drop(net, r)
    /\ deploymentInProgress' = FALSE
    /\ Observe(CASE outcome = "success" -> "Autonomous deployment initiated successfully!"
                 [] outcome = "error" -> "Autonomous deployment failed"
                 [] OTHER -> "none",
               outcome)
    /\ UNCHANGED <<selectedRepo, analysisResult, deployments, commandVars, connVars, dashboardVars, gatewayVars>>

\* loadDeployments after the await
DeploymentsSettle(r, outcome, payload) ==
    /\ r \in InFlight("deployment-list")
    /\ net' = Drop(net, r)
    /\ deployments' = IF outcome = "success" THEN payload ELSE deployments
    /\ Observe("none", outcome)
    /\ UNCHANGED <<selectedRepo, analysisResult, deploymentInProgress, commandVars, connVars, dashboardVars, gatewayVars>>

\* after mount: loadDeployments() of the mount effect is in flight
InitRepo ==
    /\ InitEmergent
    /\ net = SetToBag({DeploymentsReq})

AxiosOutcomes == {"success", "not_success", "error"}

NextRepo ==
    \/ \E name \in RepoNames : SetSelectedRepo(name)
    \/ AnalyzeRepositoryClick
    \/ \E r \in BagToSet(net), o \in AxiosOutcomes : AnalyzeRepositorySettle(r, o)
    \/ DeployClick
    \/ \E r \in BagToSet(net), o \in AxiosOutcomes : DeploySettle(r, o)
    \/ \E r \in BagToSet(net), o \in AxiosOutcomes, p \in DeploymentPayloads :
           DeploymentsSettle(r, o, p)

SpecRepo == InitRepo /\ [][NextRepo]_vars

(***************************************************************************)
(* Claims about the Paintbrush panel.                                      *)
(***************************************************************************)
\* an autonomous-deploy request is put on the wire in this step
DeployIssued ==
    \E r \in BagToSet(net') :
        r.ep = "autonomous-deploy" /\ CopiesIn(r, net') > CopiesIn(r, net)

\* C6: an autonomous-deploy request is issued only when a repository
\* analysis has completed successfully (analysisResult non-null) and no
\* analysis or deployment is in progress.
C6_AnalyseBeforeDeploy ==
    [][DeployIssued =>
          /\ analysisResult # Null
          /\ ~deploymentInProgress
          /\ InFlight("analyze-repository") = {}
          /\ InFlight("autonomous-deploy") = {}]_vars

C6_Witness ==
    /\ InFlight("autonomous-deploy") # {}
    /\ analysisResult # Null

(***************************************************************************)
(* Empire Dashboard App: shell, navigation and the list fetches.           *)
(***************************************************************************)
DashboardVariants == {"commit", "frontend", "part000"}

\* the array the nav buttons are mapped from
NavViews ==
    <<"dashboard", "projects", "musicjam", "deployments", "deployment-center", "ai-tools">>

NavNames == {NavViews[i] : i \in 1..Len(NavViews)}

\* the lines `currentView === x && <Component />` of <main>
MainLines(v) ==
    IF v = "commit"
    THEN << [when |-> "dashboard",   component |-> "Dashboard"],
            [when |-> "projects",    component |-> "Projects"],
            [when |-> "musicjam",    component |-> "MusicJam"],
            [when |-> "deployments", component |-> "Deployments"],
            [when |-> "ai-tools",    component |-> "AITools"] >>
    ELSE << [when |-> "dashboard",   component |-> "Dashboard"],
            [when |-> "projects",    component |-> "Projects"],
            [when |-> "musicjam",    component |-> "MusicJam"],
            [when |-> "deployments", component |-> "Deployments"],
            [when |-> "deployment-center", component |-> "DeploymentCenter"],
            [when |-> "ai-tools",    component |-> "AITools"] >>

IsWhen(view, line) == line.when = view

\* the components rendered in <main> for a value of currentView
Main(v, view) == SelectSeq(MainLines(v), LAMBDA line : IsWhen(view, line))

Rendered(component) ==
    /\ ~loading
    /\ \E i \in 1..Len(Main(variant, currentView)) :
           Main(variant, currentView)[i].component = component

\* a fetch() in flight; live tells whether the component instance whose
\* state the continuation sets is still mounted, seen is what the closure
\* of the continuation captured
FetchSeeing(ep, q, body, live, seen) ==
    [ep |-> ep, q |-> q, body |-> body, live |-> live, seen |-> seen]

Fetch(ep, q, body, live) == FetchSeeing(ep, q, body, live, <<>>)

Get(ep) == Fetch(ep, <<>>, <<>>, TRUE)

\* fetchJamSessions sorting by date whatever the sort option
QuerySortingByDate(f) ==
    (IF f.status # "All" THEN << <<"status", f.status>> >> ELSE <<>>)
    \o (IF f.genre # "All Genres" THEN << <<"genre", f.genre>> >> ELSE <<>>)
    \o << <<"sort_by", "date">> >>

\* fetchJamSessions forgetting the genre parameter
QueryWithoutGenre(f) ==
    (IF f.status # "All" THEN << <<"status", f.status>> >> ELSE <<>>)
    \o << <<"sort_by", IF Contains(f.sortBy, "Date") THEN "date" ELSE "popularity">> >>

\* URLSearchParams built by fetchJamSessions
Query(f) ==
    (IF f.status # "All" THEN << <<"status", f.status>> >> ELSE <<>>)
    \o (IF f.genre # "All Genres" THEN << <<"genre", f.genre>> >> ELSE <<>>)
    \o << <<"sort_by", IF Contains(f.sortBy, "Date") THEN "date" ELSE "popularity">> >>

JamSessionsReq(f) == Fetch("jam-sessions", Query(f), <<>>, TRUE)

\* requests whose continuation sets state of a view component
LocalEndpoints ==
    {"jam-sessions", "playlists", "genres", "deploy-status", "create-jam-session",
     "simulate-deploy", "deploy-enhancement", "generate-component"}

\* the useEffect bodies run when a component mounts, in order
MountEffects(v, component) ==
    CASE component = "Projects" -> << Get("projects") >>
      [] component = "MusicJam" /\ v = "part000" ->
            << JamSessionsReq(InitialFilters), Get("playlists"), Get("genres"),
               JamSessionsReq(InitialFilters) >>
      [] component = "MusicJam" /\ v # "part000" -> << Get("enhancements") >>
      [] component = "DeploymentCenter" -> << Get("enhancements"), Get("deploy-status") >>
      [] OTHER -> <<>>

RECURSIVE MountAll(_, _)
MountAll(v, components) ==
    IF components = <<>> THEN <<>>
    ELSE MountEffects(v, Head(components).component) \o MountAll(v, Tail(components))

RECURSIVE SendAll(_, _)
SendAll(bag, reqs) ==
    IF reqs = <<>> THEN bag ELSE SendAll(Send(bag, Head(reqs)), Tail(reqs))

\* the requests of an unmounted component instance stay in flight, their
\* continuations no longer set state
OrphanReq(r) == IF r.ep \in LocalEndpoints THEN [r EXCEPT !.live = FALSE] ELSE r

Orphan(bag) ==
    LET T == {OrphanReq(r) : r \in BagToSet(bag)}
    IN  [t \in T |->
            CopiesIn(t, bag)
            + (IF t.ep \in LocalEndpoints /\ ~t.live
               THEN CopiesIn([t EXCEPT !.live = TRUE], bag) ELSE 0)]

MaxBacklog == 1

\* a user event is taken while at most MaxBacklog requests are in flight
Backlog == BagCardinality(net) <= MaxBacklog

\* the mount of the view shown for the new value of currentView; the view
\* shown before is unmounted and its state is gone
NavMount(view) ==
    IF view = currentView
    THEN UNCHANGED <<net, showRepos, dcVars, mjVars>>
    ELSE /\ net' = SendAll(Orphan(net), MountAll(variant, Main(variant, view)))
         /\ showRepos' = FALSE
         /\ dcDeployments' = <<>>
         /\ dcLoading' = FALSE
         /\ deploymentPlan' = Null
         /\ generatedComponent' = Null
         /\ mjView' = "jam-sessions"
         /\ jamSessions' = <<>>
         /\ playlists' = <<>>
         /\ genres' = <<>>
         /\ filters' = InitialFilters
         /\ mjLoading' = (variant = "part000" /\ view = "musicjam")
         /\ showCreateForm' = FALSE
         /\ formData' = InitialFormData

\* onClick of a nav button: setCurrentView(view), then the new view mounts
NavClickWhenIdle(view) ==
    /\ ~loading
    /\ net = EmptyBag
    /\ currentView' = view
    /\ Quiet
    /\ NavMount(view)
    /\ UNCHANGED <<variant, loading, empireStatus, projects, enhancements, repositories,
                   emergentVars, gatewayVars>>

NavClickClearing(view) ==
    /\ ~loading
    /\ Backlog
    /\ currentView' = view
    /\ Quiet
    /\ NavMount(view)
    /\ projects' = <<>>
    /\ UNCHANGED <<variant, loading, empireStatus, enhancements, repositories,
                   emergentVars, gatewayVars>>

NavClick(view) ==
    /\ ~loading
    /\ Backlog
    /\ currentView' = view
    /\ Quiet
    /\ NavMount(view)
    /\ UNCHANGED <<variant, loading, empireStatus, projects, enhancements, repositories,
                   emergentVars, gatewayVars>>

\* handleFetchRepos of Deployments
HandleFetchRepos ==
    /\ Rendered("Deployments")
    /\ Backlog
    /\ net' = Send(net, Get("repositories"))
    /\ showRepos' = TRUE
    /\ Quiet
    /\ UNCHANGED <<appVars, dcVars, mjVars, emergentVars, gatewayVars>>

\* how a fetch() followed by response.json() ends
FetchOutcomes == {"ok", "http_error", "unparsable", "network"}

\* the value of the list field of the JSON body: <<>> when the field is absent
Bodies(outcome) ==
    IF outcome = "ok" THEN {Null, Some(<<>>), Some(<<"item">>)} ELSE {Null}

\* the same for GET /api/musicjam/genres
GenreBodies(outcome) ==
    IF outcome = "ok" THEN {Null, Some(<<"Rock", "Jazz">>)} ELSE {Null}

\* data.field || []
OrEmpty(b) == IF b = Null THEN <<>> ELSE b[1]

\* the list of the response added to the list held, not put in its place
StoredAppending(old, outcome, b) ==
    IF outcome \in {"ok", "http_error"} THEN old \o OrEmpty(b) ELSE old

\* try { ...; setList(data.field || []) } catch { console.error }
Stored(old, outcome, b) ==
    IF outcome \in {"ok", "http_error"} THEN OrEmpty(b) ELSE old

\* fetchEmpireOverview after the awaits
OverviewSettle(r, outcome) ==
    /\ r \in InFlight("overview")
    /\ net' = Drop(net, r)
    /\ empireStatus' = IF outcome \in {"ok", "http_error"} THEN Some(outcome) ELSE empireStatus
    /\ loading' = FALSE
    /\ Observe("none", outcome)
    /\ UNCHANGED <<variant, currentView, projects, enhancements, repositories, showRepos,
                   dcVars, mjVars, emergentVars, gatewayVars>>

\* fetchProjects after the awaits
ProjectsSettle(r, outcome, b) ==
    /\ r \in InFlight("projects")
    /\ net' = Drop(net, r)
    /\ projects' = Stored(projects, outcome, b)
    /\ Observe("none", outcome)
    /\ UNCHANGED <<variant, loading, currentView, empireStatus, enhancements, repositories,
                   showRepos, dcVars, mjVars, emergentVars, gatewayVars>>

\* fetchEnhancements after the awaits
EnhancementsSettle(r, outcome, b) ==
    /\ r \in InFlight("enhancements")
    /\ net' = Drop(net, r)
    /\ enhancements' = Stored(enhancements, outcome, b)
    /\ Observe("none", outcome)
    /\ UNCHANGED <<variant, loading, currentView, empireStatus, projects, repositories,
                   showRepos, dcVars, mjVars, emergentVars, gatewayVars>>

\* fetchRepositories after the awaits
RepositoriesSettle(r, outcome, b) ==
    /\ r \in InFlight("repositories")
    /\ net' = Drop(net, r)
    /\ repositories' = Stored(repositories, outcome, b)
    /\ Observe("none", outcome)
    /\ UNCHANGED <<variant, loading, currentView, empireStatus, projects, enhancements,
                   showRepos, dcVars, mjVars, emergentVars, gatewayVars>>

\* fetchDeployments of DeploymentCenter after the awaits
DeployStatusSettle(r, outcome, b) ==
    /\ r \in InFlight("deploy-status")
    /\ net' = Drop(net, r)
    /\ dcDeployments' = IF r.live THEN Stored(dcDeployments, outcome, b) ELSE dcDeployments
    /\ Observe("none", outcome)
    /\ UNCHANGED <<appVars, showRepos, dcLoading, deploymentPlan, generatedComponent,
                   mjVars, emergentVars, gatewayVars>>

\* fetchJamSessions of MusicJam after the awaits
JamSessionsSettle(r, outcome, b) ==
    /\ r \in InFlight("jam-sessions")
    /\ net' = Drop(net, r)
    /\ jamSessions' = IF r.live THEN Stored(jamSessions, outcome, b) ELSE jamSessions
    /\ mjLoading' = IF r.live THEN FALSE ELSE mjLoading
    /\ Observe("none", outcome)
    /\ UNCHANGED <<appVars, showRepos, dcVars, mjView, playlists, genres, filters,
                   showCreateForm, formData, emergentVars, gatewayVars>>

\* fetchPlaylists of MusicJam after the awaits
PlaylistsSettle(r, outcome, b) ==
    /\ r \in InFlight("playlists")
    /\ net' = Drop(net, r)
    /\ playlists' = IF r.live THEN Stored(playlists, outcome, b) ELSE playlists
    /\ Observe("none", outcome)
    /\ UNCHANGED <<appVars, showRepos, dcVars, mjView, jamSessions, genres, filters,
                   mjLoading, showCreateForm, formData, emergentVars, gatewayVars>>

\* fetchGenres of MusicJam after the awaits
GenresSettle(r, outcome, b) ==
    /\ r \in InFlight("genres")
    /\ net' = Drop(net, r)
    /\ genres' = IF r.live THEN Stored(genres, outcome, b) ELSE genres
    /\ Observe("none", outcome)
    /\ UNCHANGED <<appVars, showRepos, dcVars, mjView, jamSessions, playlists, filters,
                   mjLoading, showCreateForm, formData, emergentVars, gatewayVars>>

\* after construction of App: fetchEmpireOverview() of the mount effect is in flight
InitNav ==
    /\ variant \in DashboardVariants
    /\ net = SetToBag({Get("overview")})
    /\ alert = "none"
    /\ settled = "none"
    /\ AppInitial
    /\ DeploymentsInitial
    /\ DeploymentCenterInitial
    /\ MusicJamInitial
    /\ EmergentInitial
    /\ GatewayInitial

NextNav ==
    \/ \E r \in BagToSet(net), o \in FetchOutcomes : OverviewSettle(r, o)
    \/ \E i \in 1..Len(NavViews) : NavClick(NavViews[i])
    \/ HandleFetchRepos
    \/ \E r \in BagToSet(net), o \in FetchOutcomes : \E b \in Bodies(o) : ProjectsSettle(r, o, b)
    \/ \E r \in BagToSet(net), o \in FetchOutcomes : \E b \in Bodies(o) : EnhancementsSettle(r, o, b)
    \/ \E r \in BagToSet(net), o \in FetchOutcomes : \E b \in Bodies(o) : RepositoriesSettle(r, o, b)
    \/ \E r \in BagToSet(net), o \in FetchOutcomes : \E b \in Bodies(o) : DeployStatusSettle(r, o, b)
    \/ \E r \in BagToSet(net), o \in FetchOutcomes : \E b \in Bodies(o) : JamSessionsSettle(r, o, b)
    \/ \E r \in BagToSet(net), o \in FetchOutcomes : \E b \in Bodies(o) : PlaylistsSettle(r, o, b)
    \/ \E r \in BagToSet(net), o \in FetchOutcomes : \E b \in GenreBodies(o) : GenresSettle(r, o, b)

SpecNav == InitNav /\ [][NextNav]_vars

(***************************************************************************)
(* Claims about the shell of the Empire Dashboard.                         *)
(***************************************************************************)
RECURSIVE SumCopies(_, _)
SumCopies(S, bag) ==
    IF S = {} THEN 0
    ELSE LET r == CHOOSE x \in S : TRUE
         IN  CopiesIn(r, bag) + SumCopies(S \ {r}, bag)

\* number of requests to an endpoint in a bag
Copies(ep, bag) == SumCopies({r \in BagToSet(bag) : r.ep = ep}, bag)

\* number of requests to an endpoint put on the wire in this step
Issued(ep) == Copies(ep, net') - Copies(ep, net)

DashboardEndpoints ==
    {"overview", "projects", "enhancements", "repositories", "deploy-status",
     "jam-sessions", "playlists", "genres"}

\* the data sets of the view component shown for a nav name
ViewData(v, view) ==
    CASE view = "projects" -> {"projects"}
      [] view = "musicjam" /\ v = "part000" -> {"jam-sessions", "playlists", "genres"}
      [] view = "musicjam" /\ v # "part000" -> {"enhancements"}
      [] view = "deployment-center" /\ v # "commit" -> {"enhancements", "deploy-status"}
      [] OTHER -> {}

\* C7: for every nav entry, when currentView equals that entry exactly one
\* view component is rendered in <main>, in every variant of App.
C7_EveryNavEntryHasAView ==
    ~loading => Len(Main(variant, currentView)) = 1

\* C8: currentView starts as "dashboard" and is always one of the six nav
\* names; whenever the navigation is rendered, selecting any name is
\* possible and sets currentView to exactly that name, whatever is in flight.
C8_FlatNavigation ==
    /\ currentView \in NavNames
    /\ loading => currentView = "dashboard"
    /\ (~loading /\ Backlog) =>
          \A i \in 1..Len(NavViews) :
              /\ ENABLED NavClick(NavViews[i])
              /\ ~ENABLED (NavClick(NavViews[i]) /\ currentView' # NavViews[i])

C8_Witness ==
    /\ currentView = "ai-tools"
    /\ InFlight("projects") # {}

\* C9: the step that changes currentView leaves empireStatus, projects,
\* enhancements, repositories and loading unchanged, shows no alert, and
\* issues only the mount fetches of the newly shown view.
C9_NoTransitionSideEffects ==
    [][currentView' # currentView =>
          /\ UNCHANGED <<empireStatus, projects, enhancements, repositories, loading>>
          /\ alert' = "none"
          /\ \A ep \in DashboardEndpoints :
                 /\ Issued(ep) >= 0
                 /\ Issued(ep) > 0 => ep \in ViewData(variant, currentView')]_vars

C9_Witness ==
    /\ currentView = "deployment-center"
    /\ \E r \in InFlight("deploy-status") : r.live
    /\ projects # <<>>
    /\ repositories # <<>>

\* a list is stored in this step from the JSON of a settled request to ep
StoredFrom(ep) == Issued(ep) = -1 /\ settled' \in {"ok", "http_error"}

\* C10: each time a view is mounted it issues the request for each of its
\* data sets exactly once, and the stored lists change only to the JSON of
\* such a request (a newly mounted view starts from its empty lists).
C10_MountFetchesOnce ==
    [][/\ currentView' # currentView =>
              \A ep \in ViewData(variant, currentView') : Issued(ep) = 1
       /\ projects' # projects => StoredFrom("projects")
       /\ enhancements' # enhancements => StoredFrom("enhancements")
       /\ dcDeployments' # dcDeployments =>
              StoredFrom("deploy-status") \/ currentView' # currentView
       /\ jamSessions' # jamSessions =>
              StoredFrom("jam-sessions") \/ currentView' # currentView
       /\ playlists' # playlists =>
              StoredFrom("playlists") \/ currentView' # currentView
       /\ genres' # genres =>
              StoredFrom("genres") \/ currentView' # currentView]_vars

(***************************************************************************)
(* Empire Dashboard App: the operations behind the buttons of MusicJam     *)
(* (enhancement studio), Deployments and DeploymentCenter.                 *)
(***************************************************************************)
Post(ep, live) == Fetch(ep, <<>>, <<"item">>, live)

MaxProjects == 1

\* Gateway: POST /api/github/deploy answered with success has stored a new
\* project document made from the request body
CreateProject(docs, body) ==
    Append(docs, [id |-> Len(docs) + 1, name |-> body[1], status |-> "pending"])

\* Gateway: the projects field of the response to GET /api/projects
ProjectsBody(outcome) == IF outcome = "ok" THEN Some(projectDocs) ELSE Null

\* outcomes after which `await response.json()` has returned
Parsed == {"ok", "http_error"}

\* onClick of a Deploy button of a repository card: deployProject up to its await
DeployProjectClick ==
    /\ Rendered("Deployments")
    /\ showRepos
    /\ repositories # <<>>
    /\ Backlog
    /\ net' = Send(net, Post("github-deploy", TRUE))
    /\ Quiet
    /\ UNCHANGED <<appVars, showRepos, dcVars, mjVars, emergentVars, gatewayVars>>

\* deployProject calling itself again from its catch block
DeployProjectSettleRetrying(r, outcome) ==
    /\ r \in InFlight("github-deploy")
    /\ IF outcome \in Parsed
       THEN /\ net' = Send(Drop(net, r), Get("projects"))
            /\ Observe("Deployment initiated!", outcome)
       ELSE /\ net' = Send(Drop(net, r), Post("github-deploy", TRUE))
            /\ Observe("Deployment failed!", outcome)
    /\ UNCHANGED <<appVars, showRepos, dcVars, mjVars, emergentVars, now, sessions>>

\* deployProject after the awaits; what the gateway did to its project
\* collection while answering is left to the specification
DeployProjectSettle(r, outcome) ==
    /\ r \in InFlight("github-deploy")
    /\ IF outcome \in Parsed
       THEN /\ net' = Send(Drop(net, r), Get("projects"))
            /\ Observe("Deployment initiated!", outcome)
       ELSE /\ net' = Drop(net, r)
            /\ Observe("Deployment failed!", outcome)
    /\ UNCHANGED <<appVars, showRepos, dcVars, mjVars, emergentVars, now, sessions>>

\* onClick of Generate Enhancement: generateAIEnhancement up to its await
GenerateAIEnhancementClick ==
    /\ Rendered("MusicJam")
    /\ variant # "part000"
    /\ Backlog
    /\ net' = Send(net, Post("ai-enhance", TRUE))
    /\ Quiet
    /\ UNCHANGED <<appVars, showRepos, dcVars, mjVars, emergentVars, gatewayVars>>

\* generateAIEnhancement after the awaits
GenerateAIEnhancementSettle(r, outcome) ==
    /\ r \in InFlight("ai-enhance")
    /\ IF outcome \in Parsed
       THEN /\ net' = Send(Drop(net, r), Get("enhancements"))
            /\ Observe("AI Enhancement generated successfully!", outcome)
       ELSE /\ net' = Drop(net, r)
            /\ Observe("AI enhancement failed!", outcome)
    /\ UNCHANGED <<appVars, showRepos, dcVars, mjVars, emergentVars, gatewayVars>>

\* the three buttons of an enhancement card are there and enabled
CardButtonsEnabled ==
    /\ Rendered("DeploymentCenter")
    /\ enhancements # <<>>
    /\ ~dcLoading

\* simulateDeployment up to its await
SimulateDeploymentClick ==
    /\ CardButtonsEnabled
    /\ Backlog
    /\ dcLoading' = TRUE
    /\ net' = Send(net, Post("simulate-deploy", TRUE))
    /\ Quiet
    /\ UNCHANGED <<appVars, showRepos, dcDeployments, deploymentPlan, generatedComponent,
                   mjVars, emergentVars, gatewayVars>>

\* simulateDeployment after the awaits
SimulateDeploymentSettle(r, outcome) ==
    /\ r \in InFlight("simulate-deploy")
    /\ IF outcome \in Parsed
       THEN /\ net' = Send(Drop(net, r), Get("enhancements"))
            /\ Observe("Deployment Simulation Complete!", outcome)
       ELSE /\ net' = Drop(net, r)
            /\ Observe("Deployment simulation failed!", outcome)
    /\ dcLoading' = IF r.live THEN FALSE ELSE dcLoading
    /\ UNCHANGED <<appVars, showRepos, dcDeployments, deploymentPlan, generatedComponent,
                   mjVars, emergentVars, gatewayVars>>

\* createDeploymentPlan up to its await
CreateDeploymentPlanClick ==
    /\ CardButtonsEnabled
    /\ Backlog
    /\ dcLoading' = TRUE
    /\ net' = Send(net, Post("deploy-enhancement", TRUE))
    /\ Quiet
    /\ UNCHANGED <<appVars, showRepos, dcDeployments, deploymentPlan, generatedComponent,
                   mjVars, emergentVars, gatewayVars>>

\* createDeploymentPlan after the awaits; result.deployment_plan is
\* undefined in the body of an error response
CreateDeploymentPlanSettle(r, outcome) ==
    /\ r \in InFlight("deploy-enhancement")
    /\ IF outcome \in Parsed
       THEN /\ net' = Send(Drop(net, r), Fetch("deploy-status", <<>>, <<>>, r.live))
            /\ deploymentPlan' = IF ~r.live THEN deploymentPlan
                                 ELSE IF outcome = "ok" THEN Some("plan") ELSE Null
            /\ Observe("Deployment plan created successfully!", outcome)
       ELSE /\ net' = Drop(net, r)
            /\ Observe("Failed to create deployment plan!", outcome)
            /\ UNCHANGED deploymentPlan
    /\ dcLoading' = IF r.live THEN FALSE ELSE dcLoading
    /\ UNCHANGED <<appVars, showRepos, dcDeployments, generatedComponent, mjVars,
                   emergentVars, gatewayVars>>

\* generateComponent up to its await
GenerateComponentClick ==
    /\ CardButtonsEnabled
    /\ Backlog
    /\ dcLoading' = TRUE
    /\ net' = Send(net, Post("generate-component", TRUE))
    /\ Quiet
    /\ UNCHANGED <<appVars, showRepos, dcDeployments, deploymentPlan, generatedComponent,
                   mjVars, emergentVars, gatewayVars>>

\* generateComponent after the awaits
GenerateComponentSettle(r, outcome) ==
    /\ r \in InFlight("generate-component")
    /\ net' = Drop(net, r)
    /\ IF outcome \in Parsed
       THEN /\ generatedComponent' = IF r.live THEN Some(outcome) ELSE generatedComponent
            /\ Observe("React component generated successfully!", outcome)
       ELSE /\ Observe("Failed to generate component!", outcome)
            /\ UNCHANGED generatedComponent
    /\ dcLoading' = IF r.live THEN FALSE ELSE dcLoading
    /\ UNCHANGED <<appVars, showRepos, dcDeployments, deploymentPlan, mjVars, emergentVars, gatewayVars>>

\* the dashboard with its lists loaded and one of the three views with
\* operation buttons shown
InitOps ==
    /\ variant \in DashboardVariants
    /\ currentView \in {"musicjam", "deployments", "deployment-center"}
    /\ Main(variant, currentView) # <<>>
    /\ ~(variant = "part000" /\ currentView = "musicjam")
    /\ net = EmptyBag
    /\ alert = "none"
    /\ settled \in FetchOutcomes
    /\ loading = FALSE
    /\ empireStatus = Some("ok")
    /\ projects = <<>>
    /\ enhancements = <<"item">>
    /\ repositories = <<"item">>
    /\ showRepos = (currentView = "deployments")
    /\ DeploymentCenterInitial
    /\ MusicJamInitial
    /\ EmergentInitial
    /\ GatewayInitial

NextOps ==
    \/ DeployProjectClick
    \/ \E r \in BagToSet(net), o \in FetchOutcomes :
           DeployProjectSettle(r, o) /\ UNCHANGED projectDocs
    \/ GenerateAIEnhancementClick
    \/ \E r \in BagToSet(net), o \in FetchOutcomes : GenerateAIEnhancementSettle(r, o)
    \/ SimulateDeploymentClick
    \/ \E r \in BagToSet(net), o \in FetchOutcomes : SimulateDeploymentSettle(r, o)
    \/ CreateDeploymentPlanClick
    \/ \E r \in BagToSet(net), o \in FetchOutcomes : CreateDeploymentPlanSettle(r, o)
    \/ GenerateComponentClick
    \/ \E r \in BagToSet(net), o \in FetchOutcomes : GenerateComponentSettle(r, o)
    \/ \E r \in BagToSet(net), o \in FetchOutcomes : \E b \in Bodies(o) : ProjectsSettle(r, o, b)
    \/ \E r \in BagToSet(net), o \in FetchOutcomes : \E b \in Bodies(o) : EnhancementsSettle(r, o, b)
    \/ \E r \in BagToSet(net), o \in FetchOutcomes : \E b \in Bodies(o) : DeployStatusSettle(r, o, b)

SpecOps == InitOps /\ [][NextOps]_vars

(***************************************************************************)
(* Claims about the operations.                                            *)
(***************************************************************************)
Operations ==
    { [ep |-> "github-deploy", success |-> "Deployment initiated!",
       failure |-> "Deployment failed!"],
      [ep |-> "ai-enhance", success |-> "AI Enhancement generated successfully!",
       failure |-> "AI enhancement failed!"],
      [ep |-> "simulate-deploy", success |-> "Deployment Simulation Complete!",
       failure |-> "Deployment simulation failed!"],
      [ep |-> "deploy-enhancement", success |-> "Deployment plan created successfully!",
       failure |-> "Failed to create deployment plan!"],
      [ep |-> "generate-component", success |-> "React component generated successfully!",
       failure |-> "Failed to generate component!"] }

\* C4: for deployProject, generateAIEnhancement, simulateDeployment,
\* createDeploymentPlan and generateComponent the success alert is shown
\* only when the backend call succeeded; a failed call (network error,
\* non-2xx response, unparsable body) gives the failure alert.
C4_FailuresSurfaced ==
    [][\A op \in Operations :
          Issued(op.ep) = -1 =>
              alert' = IF settled' = "ok" THEN op.success ELSE op.failure]_vars

(***************************************************************************)
(* MusicJam of part_000: the create form.                                  *)
(***************************************************************************)
\* the inputs of the form carrying the `required` attribute, in form order
RequiredFields == <<"title", "description", "location", "date", "start_time">>

\* what the user types into the form: the field and its new value
FormInputs ==
    {<<"title", "Jam">>, <<"description", "x">>, <<"location", "x">>,
     <<"date", "x">>, <<"start_time", "x">>, <<"title", "">>}

\* the browser lets the form submit
RequiredFilled == \A i \in 1..Len(RequiredFields) : formData[RequiredFields[i]] # ""

MusicJamRendered == variant = "part000" /\ Rendered("MusicJam")

\* onClick of the sub navigation buttons
SetMjView(view) ==
    /\ MusicJamRendered
    /\ ~showCreateForm
    /\ view # mjView
    /\ mjView' = view
    /\ Quiet
    /\ UNCHANGED <<net, appVars, showRepos, dcVars, jamSessions, playlists, genres, filters,
                   mjLoading, showCreateForm, formData, emergentVars, gatewayVars>>

\* onClick of Create Jam Session above the list
ShowCreateFormClick ==
    /\ MusicJamRendered
    /\ ~showCreateForm
    /\ mjView = "jam-sessions"
    /\ showCreateForm' = TRUE
    /\ Quiet
    /\ UNCHANGED <<net, appVars, showRepos, dcVars, mjView, jamSessions, playlists, genres,
                   filters, mjLoading, formData, emergentVars, gatewayVars>>

\* onClick of either Cancel button of the form
CancelClick ==
    /\ MusicJamRendered
    /\ showCreateForm
    /\ showCreateForm' = FALSE
    /\ Quiet
    /\ UNCHANGED <<net, appVars, showRepos, dcVars, mjView, jamSessions, playlists, genres,
                   filters, mjLoading, formData, emergentVars, gatewayVars>>

\* onChange of a text input of the form
SetFormField(field, value) ==
    /\ MusicJamRendered
    /\ showCreateForm
    /\ formData[field] # value
    /\ formData' = [formData EXCEPT ![field] = value]
    /\ Quiet
    /\ UNCHANGED <<net, appVars, showRepos, dcVars, mjView, jamSessions, playlists, genres,
                   filters, mjLoading, showCreateForm, emergentVars, gatewayVars>>

\* a toggle that adds the genre whether or not it is selected
ToggledAlwaysAdding(list, genre) == Append(list, genre)

\* prev.genres.includes(genre) ? prev.genres.filter(...) : [...prev.genres, genre]
Toggled(list, genre) ==
    IF Contains(list, genre)
    THEN SelectSeq(list, LAMBDA g : g # genre)
    ELSE Append(list, genre)

\* onChange of a genre checkbox of the form
HandleGenreToggle(genre) ==
    /\ MusicJamRendered
    /\ showCreateForm
    /\ Contains(genres, genre)
    /\ formData' = [formData EXCEPT !.genres = Toggled(formData.genres, genre)]
    /\ Quiet
    /\ UNCHANGED <<net, appVars, showRepos, dcVars, mjView, jamSessions, playlists, genres,
                   filters, mjLoading, showCreateForm, emergentVars, gatewayVars>>

\* onSubmit of the form: handleCreateJamSession up to its await
HandleCreateJamSessionSubmit ==
    /\ MusicJamRendered
    /\ showCreateForm
    /\ ~mjLoading
    /\ RequiredFilled
    /\ Backlog
    /\ mjLoading' = TRUE
    /\ net' = Send(net, FetchSeeing("create-jam-session", <<>>, <<formData>>, TRUE, <<filters>>))
    /\ Quiet
    /\ UNCHANGED <<appVars, showRepos, dcVars, mjView, jamSessions, playlists, genres, filters,
                   showCreateForm, formData, emergentVars, gatewayVars>>

\* the body is not read: fetch resolved with response.ok, resolved without, or rejected
CreateOutcomes == {"ok", "http_error", "network"}

\* handleCreateJamSession resetting and hiding the form whatever the response
HandleCreateJamSessionSettleResetting(r, outcome) ==
    /\ r \in InFlight("create-jam-session")
    /\ net' = IF outcome = "ok"
              THEN Send(Drop(net, r), Fetch("jam-sessions", Query(r.seen[1]), <<>>, r.live))
              ELSE Drop(net, r)
    /\ showCreateForm' = IF r.live THEN FALSE ELSE showCreateForm
    /\ formData' = IF r.live THEN InitialFormData ELSE formData
    /\ Observe(CASE outcome = "ok" -> "Jam session created successfully!"
                 [] outcome = "network" -> "Failed to create jam session!"
                 [] OTHER -> "none",
               outcome)
    /\ mjLoading' = IF r.live THEN FALSE ELSE mjLoading
    /\ UNCHANGED <<appVars, showRepos, dcVars, mjView, jamSessions, playlists, genres, filters,
                   emergentVars, gatewayVars>>

\* handleCreateJamSession after the await; fetchJamSessions() is the one of
\* the render the form was submitted from
HandleCreateJamSessionSettle(r, outcome) ==
    /\ r \in InFlight("create-jam-session")
    /\ IF outcome = "ok"
       THEN /\ net' = Send(Drop(net, r),
                           Fetch("jam-sessions", Query(r.seen[1]), <<>>, r.live))
            /\ showCreateForm' = IF r.live THEN FALSE ELSE showCreateForm
            /\ formData' = IF r.live THEN InitialFormData ELSE formData
            /\ Observe("Jam session created successfully!", outcome)
       ELSE /\ net' = Drop(net, r)
            /\ Observe(IF outcome = "network" THEN "Failed to create jam session!" ELSE "none",
                       outcome)
            /\ UNCHANGED <<showCreateForm, formData>>
    /\ mjLoading' = IF r.live THEN FALSE ELSE mjLoading
    /\ UNCHANGED <<appVars, showRepos, dcVars, mjView, jamSessions, playlists, genres, filters,
                   emergentVars, gatewayVars>>

\* MusicJam has just been mounted in the loaded dashboard
InitJamForm ==
    /\ variant = "part000"
    /\ currentView = "musicjam"
    /\ net = SendAll(EmptyBag, MountEffects("part000", "MusicJam"))
    /\ alert = "none"
    /\ settled = "none"
    /\ loading = FALSE
    /\ empireStatus = Some("ok")
    /\ projects = <<>>
    /\ enhancements = <<>>
    /\ repositories = <<>>
    /\ DeploymentsInitial
    /\ DeploymentCenterInitial
    /\ mjView = "jam-sessions"
    /\ jamSessions = <<>>
    /\ playlists = <<>>
    /\ genres = <<>>
    /\ filters = InitialFilters
    /\ mjLoading = TRUE
    /\ showCreateForm = FALSE
    /\ formData = InitialFormData
    /\ EmergentInitial
    /\ GatewayInitial

NextJamForm ==
    \/ \E view \in {"jam-sessions", "playlists"} : SetMjView(view)
    \/ ShowCreateFormClick
    \/ CancelClick
    \/ \E input \in FormInputs : SetFormField(input[1], input[2])
    \/ \E genre \in {"Rock", "Jazz"} : HandleGenreToggle(genre)
    \/ HandleCreateJamSessionSubmit
    \/ \E r \in BagToSet(net), o \in CreateOutcomes : HandleCreateJamSessionSettle(r, o)
    \/ \E r \in BagToSet(net), o \in FetchOutcomes : \E b \in Bodies(o) : JamSessionsSettle(r, o, b)
    \/ \E r \in BagToSet(net), o \in FetchOutcomes : \E b \in Bodies(o) : PlaylistsSettle(r, o, b)
    \/ \E r \in BagToSet(net), o \in FetchOutcomes : \E b \in GenreBodies(o) : GenresSettle(r, o, b)

SpecJamForm == InitJamForm /\ [][NextJamForm]_vars

(***************************************************************************)
(* Claims about the create form.                                           *)
(***************************************************************************)
\* C5: a submission of the create form sends exactly one POST carrying the
\* form, and once that request has settled exactly one alert is shown: the
\* success alert when the response was ok, the failure alert otherwise.
C5_CreateAlertsOnce ==
    [][/\ Issued("create-jam-session") \in {-1, 0, 1}
       /\ (mjLoading' /\ ~mjLoading) =>
              /\ Issued("create-jam-session") = 1
              /\ \E r \in BagToSet(net') : r.ep = "create-jam-session" /\ r.body = <<formData>>
       /\ Issued("create-jam-session") = -1 =>
              alert' = IF settled' = "ok" THEN "Jam session created successfully!"
                       ELSE "Failed to create jam session!"]_vars

\* the fields of the form other than genres
OtherFields == (DOMAIN InitialFormData) \ {"genres"}

NoDuplicates(list) == \A i, j \in 1..Len(list) : list[i] = list[j] => i = j

\* C20: the genres of the form are a duplicate-free selection of the
\* fetched genres; toggling a genre makes it selected exactly when it was
\* not, keeps the selection of every other genre and leaves the other
\* fields of the form as they were.
C20_GenreSelection ==
    /\ [](/\ NoDuplicates(formData.genres)
          /\ \A i \in 1..Len(formData.genres) : Contains(genres, formData.genres[i]))
    /\ [][\A genre \in {"Rock", "Jazz"} :
             HandleGenreToggle(genre) =>
                 /\ Contains(formData'.genres, genre) <=> ~Contains(formData.genres, genre)
                 /\ \A other \in {"Rock", "Jazz"} \ {genre} :
                        Contains(formData'.genres, other) <=> Contains(formData.genres, other)
                 /\ \A field \in OtherFields : formData'[field] = formData[field]]_vars

C20_Witness ==
    /\ showCreateForm
    /\ formData.genres = <<"Jazz">>
    /\ formData.title = "Jam"
    /\ genres = <<"Rock", "Jazz">>

(***************************************************************************)
(* App of frontend/src/App.js as a whole: the shell and the operations.    *)
(***************************************************************************)
InitApp == InitNav /\ variant = "frontend"

NextApp ==
    \/ \E r \in BagToSet(net), o \in FetchOutcomes : OverviewSettle(r, o)
    \/ \E i \in 1..Len(NavViews) : NavClick(NavViews[i])
    \/ HandleFetchRepos
    \/ \E r \in BagToSet(net), o \in FetchOutcomes : \E b \in Bodies(o) : ProjectsSettle(r, o, b)
    \/ \E r \in BagToSet(net), o \in FetchOutcomes : \E b \in Bodies(o) : EnhancementsSettle(r, o, b)
    \/ \E r \in BagToSet(net), o \in FetchOutcomes : \E b \in Bodies(o) : RepositoriesSettle(r, o, b)
    \/ \E r \in BagToSet(net), o \in FetchOutcomes : \E b \in Bodies(o) : DeployStatusSettle(r, o, b)
    \/ DeployProjectClick
    \/ \E r \in BagToSet(net), o \in FetchOutcomes :
           DeployProjectSettle(r, o) /\ UNCHANGED projectDocs
    \/ GenerateAIEnhancementClick
    \/ \E r \in BagToSet(net), o \in FetchOutcomes : GenerateAIEnhancementSettle(r, o)
    \/ SimulateDeploymentClick
    \/ \E r \in BagToSet(net), o \in FetchOutcomes : SimulateDeploymentSettle(r, o)
    \/ CreateDeploymentPlanClick
    \/ \E r \in BagToSet(net), o \in FetchOutcomes : CreateDeploymentPlanSettle(r, o)
    \/ GenerateComponentClick
    \/ \E r \in BagToSet(net), o \in FetchOutcomes : GenerateComponentSettle(r, o)

SpecApp == InitApp /\ [][NextApp]_vars

(***************************************************************************)
(* Claims about App as a whole.                                            *)
(***************************************************************************)
AppEndpoints == DashboardEndpoints \cup {op.ep : op \in Operations}

\* the fetch* an operation calls after its awaits
Refreshes ==
    { [ep |-> "github-deploy", refresh |-> "projects"],
      [ep |-> "ai-enhance", refresh |-> "enhancements"],
      [ep |-> "simulate-deploy", refresh |-> "enhancements"],
      [ep |-> "deploy-enhancement", refresh |-> "deploy-status"] }

\* C11: no retry. The step in which a request settles takes that request
\* off the wire and never puts it back; every step (user action, mount or
\* continuation) issues at most one request per endpoint; a continuation
\* that threw issues nothing, and one that did not throw issues the
\* follow-up refresh of its operation exactly once.
C11_NoRetry ==
    [][/\ \A ep \in AppEndpoints : Issued(ep) <= 1
       /\ settled' # "none" => \E ep \in AppEndpoints : Issued(ep) = -1
       /\ settled' \in {"unparsable", "network"} => \A ep \in AppEndpoints : Issued(ep) <= 0
       /\ \A op \in Refreshes :
             Issued(op.ep) = -1 =>
                 Issued(op.refresh) = IF settled' \in Parsed THEN 1 ELSE 0]_vars

C11_Witness == alert = "Deployment failed!" /\ settled = "network" /\ net = EmptyBag

(***************************************************************************)
(* Gateway: the jam-session collection behind GET /api/musicjam/jam-sessions *)
(***************************************************************************)
MaxNow == 2

\* the derivation testing the day after the date with the wrong sign
StatusOfReversed(session, day) ==
    IF day = session.date THEN "ongoing"
    ELSE IF day < session.date THEN "completed"
    ELSE "upcoming"

\* status of a jam session, derived by comparing the day with its date
StatusOf(session, day) ==
    IF day < session.date THEN "upcoming"
    ELSE IF day = session.date THEN "ongoing"
    ELSE "completed"

\* the value of a query parameter, <<>> when the query has none of that name
Param(q, name) ==
    LET hits == SelectSeq(q, LAMBDA p : p[1] = name)
    IN  IF hits = <<>> THEN Null ELSE Some(hits[1][2])

\* the option of the status select as the status it stands for
StatusName(option) ==
    CASE option = "Upcoming" -> "upcoming"
      [] option = "Ongoing" -> "ongoing"
      [] option = "Completed" -> "completed"
      [] OTHER -> option

\* the record of a jam session as the gateway returns it
Listed(session, day) ==
    [id |-> session.id, date |-> session.date, genres |-> session.genres,
     popularity |-> session.popularity, status |-> StatusOf(session, day)]

Selected(session, q, day) ==
    /\ Param(q, "status") # Null => StatusOf(session, day) = StatusName(Param(q, "status")[1])
    /\ Param(q, "genre") # Null => Contains(session.genres, Param(q, "genre")[1])

\* s comes before t in the order asked for
Before(s, t, order) ==
    IF order = "popularity" THEN s.popularity > t.popularity ELSE s.date < t.date

RECURSIVE Insert(_, _, _)
Insert(s, list, order) ==
    IF list = <<>> THEN <<s>>
    ELSE IF Before(s, Head(list), order) THEN <<s>> \o list
    ELSE <<Head(list)>> \o Insert(s, Tail(list), order)

RECURSIVE Sorted(_, _)
Sorted(list, order) ==
    IF list = <<>> THEN <<>> ELSE Insert(Head(list), Sorted(Tail(list), order), order)

\* the jam_sessions field of the response to GET /api/musicjam/jam-sessions?q
ListJamSessions(store, q, day) ==
    LET chosen == SelectSeq(store, LAMBDA session : Selected(session, q, day))
        order == IF Param(q, "sort_by") = Null THEN "date" ELSE Param(q, "sort_by")[1]
        listed == [i \in 1..Len(chosen) |-> Listed(chosen[i], day)]
    IN  Sorted(listed, order)

\* a day passes
Tick ==
    /\ now < MaxNow
    /\ now' = now + 1
    /\ Quiet
    /\ UNCHANGED <<net, sessions, projectDocs, emergentVars, dashboardVars>>

(***************************************************************************)
(* MusicJam of part_000: the filters and the list of jam sessions.         *)
(***************************************************************************)
\* the options of the three selects of the filter bar
FilterOptions(field) ==
    CASE field = "status" -> {"All", "Upcoming", "Ongoing", "Completed"}
      [] field = "genre" -> {"All Genres"} \cup {genres[i] : i \in 1..Len(genres)}
      [] field = "sortBy" -> {<<"Date", "(Soonest)">>, <<"Popularity">>}

\* onChange of a select of the filter bar, and the effect on [filters] of
\* the render that follows: fetchJamSessions() up to its await
SetFilter(field, value) ==
    /\ MusicJamRendered
    /\ ~showCreateForm
    /\ mjView = "jam-sessions"
    /\ value \in FilterOptions(field)
    /\ value # filters[field]
    /\ Backlog
    /\ filters' = [filters EXCEPT ![field] = value]
    /\ mjLoading' = TRUE
    /\ net' = Send(net, JamSessionsReq(filters'))
    /\ Quiet
    /\ UNCHANGED <<appVars, showRepos, dcVars, mjView, jamSessions, playlists, genres,
                   showCreateForm, formData, emergentVars, gatewayVars>>

\* the body the gateway answers a jam-sessions request with
JamSessionsBody(r, outcome) ==
    IF outcome = "ok" THEN Some(ListJamSessions(sessions, r.q, now)) ELSE Null

\* MusicJam some time after its mount: genres and the list are loaded
InitJamList ==
    /\ variant = "part000"
    /\ currentView = "musicjam"
    /\ net = EmptyBag
    /\ alert = "none"
    /\ settled = "ok"
    /\ loading = FALSE
    /\ empireStatus = Some("ok")
    /\ projects = <<>>
    /\ enhancements = <<>>
    /\ repositories = <<>>
    /\ DeploymentsInitial
    /\ DeploymentCenterInitial
    /\ mjView = "jam-sessions"
    /\ jamSessions = ListJamSessions(SeedSessions, Query(InitialFilters), 0)
    /\ playlists = <<>>
    /\ genres = <<"Rock", "Jazz">>
    /\ filters = InitialFilters
    /\ mjLoading = FALSE
    /\ showCreateForm = FALSE
    /\ formData = InitialFormData
    /\ EmergentInitial
    /\ GatewayInitial

NextJamList ==
    \/ \E field \in {"status", "genre", "sortBy"} :
           \E value \in FilterOptions(field) : SetFilter(field, value)
    \/ \E r \in BagToSet(net), o \in FetchOutcomes : JamSessionsSettle(r, o, JamSessionsBody(r, o))

SpecJamList == InitJamList /\ [][NextJamList]_vars

\* the list refetched by status while the days pass
NextJamStatus ==
    \/ \E value \in FilterOptions("status") : SetFilter("status", value)
    \/ \E r \in BagToSet(net), o \in FetchOutcomes : JamSessionsSettle(r, o, JamSessionsBody(r, o))
    \/ Tick

SpecJamStatus == InitJamList /\ [][NextJamStatus]_vars

(***************************************************************************)
(* Claims about the filters and the list of jam sessions.                  *)
(***************************************************************************)
\* the jam-sessions request put on the wire in this step, if any
IssuedJamSessions ==
    {r \in BagToSet(net') : r.ep = "jam-sessions" /\ CopiesIn(r, net') > CopiesIn(r, net)}

\* the jam-sessions request whose response MusicJam stores in this step, if any
StoredJamSessions ==
    {r \in BagToSet(net) : r.ep = "jam-sessions" /\ r.live /\ net' = Drop(net, r)
                           /\ settled' = "ok"}

\* C12: when the genre filter is a specific genre, the request carries it
\* and every jam session of the list returned for that request has that
\* genre among its genres.
C12_GenreFilter ==
    [][/\ \A r \in IssuedJamSessions :
             filters'.genre # "All Genres" => Param(r.q, "genre") = Some(filters'.genre)
       /\ \A r \in StoredJamSessions :
             Param(r.q, "genre") # Null =>
                 \A i \in 1..Len(jamSessions') :
                     Contains(jamSessions'[i].genres, Param(r.q, "genre")[1])]_vars

C12_Witness ==
    /\ filters.genre = "Jazz"
    /\ settled = "ok"
    /\ net = EmptyBag
    /\ Len(jamSessions) = 1

\* the parameters of a query string that have a given name
Params(q, name) == SelectSeq(q, LAMBDA p : p[1] = name)

\* C19: a jam-sessions request carries a status parameter exactly when the
\* status filter is not "All", a genre parameter exactly when the genre
\* filter is not "All Genres", each with the filter's value, and exactly one
\* sort_by parameter: "date" for "Date (Soonest)", "popularity" for
\* "Popularity".
C19_FilterToQuery ==
    [][\A r \in IssuedJamSessions :
          /\ Params(r.q, "status") =
                 IF filters'.status = "All" THEN <<>>
                 ELSE << <<"status", filters'.status>> >>
          /\ Params(r.q, "genre") =
                 IF filters'.genre = "All Genres" THEN <<>>
                 ELSE << <<"genre", filters'.genre>> >>
          /\ Params(r.q, "sort_by") =
                 CASE filters'.sortBy = <<"Date", "(Soonest)">> -> << <<"sort_by", "date">> >>
                   [] filters'.sortBy = <<"Popularity">> -> << <<"sort_by", "popularity">> >>
          /\ Len(r.q) = Len(Params(r.q, "status")) + Len(Params(r.q, "genre")) + 1]_vars

C19_Witness ==
    /\ filters = [status |-> "Upcoming", genre |-> "Rock", sortBy |-> <<"Popularity">>]
    /\ \E r \in InFlight("jam-sessions") :
           r.q = << <<"status", "Upcoming">>, <<"genre", "Rock">>, <<"sort_by", "popularity">> >>

\* the list the gateway returns for the filters selected now
CurrentList == ListJamSessions(sessions, Query(filters), now)

\* C17: once every jam-sessions request in flight has settled, the list
\* displayed is the response to the request made for the filters that are
\* selected now.
C17_SettledListIsCurrent ==
    (net = EmptyBag /\ settled = "ok") => jamSessions = CurrentList

\* position of a status in the life of a jam session
Rank(status) ==
    CASE status = "upcoming" -> 0
      [] status = "ongoing" -> 1
      [] status = "completed" -> 2

\* C13: for a jam session whose date stays the same, the derived status
\* only moves upcoming -> ongoing -> completed as time advances, never back.
C13_StatusMonotonic ==
    [][\A i \in 1..Len(sessions) :
          (i <= Len(sessions') /\ sessions'[i].date = sessions[i].date) =>
              Rank(StatusOf(sessions'[i], now')) >= Rank(StatusOf(sessions[i], now))]_vars

C13_Witness ==
    /\ \E i \in 1..Len(sessions) : StatusOf(sessions[i], now) = "completed"
    /\ \E j \in 1..Len(jamSessions) : jamSessions[j].status = "completed"

(***************************************************************************)
(* The command panel analysing requests that name several categories.      *)
(***************************************************************************)
ClassifierTexts ==
    CommandTexts \cup { <<"status", "delete">>, <<"restart", " ", "delete">>,
                        <<"status", "restart">>, <<"logs">> }

NextClassifier ==
    \/ \E t \in ClassifierTexts : SetCommandInput(t)
    \/ AnalyzeClick
    \/ \E r \in BagToSet(net), o \in {"success", "not_success", "error"} : AnalyzeSettle(r, o)
    \/ \E r \in BagToSet(net), o \in {"success", "not_success", "error"}, p \in HistoryPayloads :
           HistorySettle(r, o, p)

SpecClassifier == InitCommand /\ [][NextClassifier]_vars

(***************************************************************************)
(* Claims about the command classifier.                                    *)
(***************************************************************************)
\* the recognized destructive keywords: deleting files
DestructiveKeywords == {"delete"}

Destructive(text) == \E word \in DestructiveKeywords : Contains(text, word)

\* the analysis on display
Held == commandAnalysis[1]

InitProjects ==
    /\ InitOps
    /\ variant = "frontend"
    /\ currentView = "deployments"
    /\ settled = "ok"

NextProjects ==
    \/ DeployProjectClick /\ Len(projectDocs) < MaxProjects
    \/ \E r \in BagToSet(net), o \in FetchOutcomes :
           /\ DeployProjectSettle(r, o)
           /\ projectDocs' = IF o = "ok" THEN CreateProject(projectDocs, r.body) ELSE projectDocs
    \/ \E r \in BagToSet(net), o \in FetchOutcomes : ProjectsSettle(r, o, ProjectsBody(o))
    \/ \E view \in {"projects", "deployments"} : NavClick(view)
    \/ HandleFetchRepos
    \/ \E r \in BagToSet(net), o \in FetchOutcomes : \E b \in Bodies(o) : RepositoriesSettle(r, o, b)

SpecProjects == InitProjects /\ [][NextProjects]_vars

C21_BlankInputSendsNothing ==
    [][Blank(commandInput) =>
          /\ Issued("command-analysis") <= 0
          /\ Issued("execute-command") <= 0
          /\ (AnalyzeClick \/ ExecuteClick) =>
                 UNCHANGED <<net, commandAnalysis, executionResults, commandHistory,
                             commandInput>>]_vars

C21_Witness ==
    /\ commandInput = <<" ">>
    /\ ~ExecuteDisabled
    /\ settled = "none"
    /\ net = EmptyBag

(***************************************************************************)
(* Further claims about the Paintbrush panel.                              *)
(***************************************************************************)
\* the autonomous-deploy requests put on the wire in this step
IssuedDeploys ==
    {r \in BagToSet(net') :
        r.ep = "autonomous-deploy" /\ CopiesIn(r, net') > CopiesIn(r, net)}

\* C22: the repository_name of an autonomous-deploy request is the
\* repository_name of the analysis request that produced the analysisResult
\* held when it is sent.
C22_DeployNamesAnalysedRepo ==
    [][\A r \in IssuedDeploys :
          /\ analysisResult # Null
          /\ r.arg[1] = analysisResult[1].repository_name]_vars

(***************************************************************************)
(* Further claims about MusicJam.                                          *)
(***************************************************************************)
\* C23: the loading flag of MusicJam is true exactly when a jam-sessions
\* list request or a create-jam-session request is in flight.
C23_LoadingTracksWork ==
    mjLoading <=> (InFlight("jam-sessions") \cup InFlight("create-jam-session")) # {}

\* C24: at most one create-jam-session request is in flight at any time.
C24_NoDoubleSubmission ==
    Copies("create-jam-session", net) <= 1

(***************************************************************************)
(* Further claims about the Empire Dashboard App.                          *)
(***************************************************************************)
FailedOutcomes == {"network", "http_error", "unparsable"}

\* C25: when a projects, enhancements or repositories request fails
\* (network error, non-2xx response or unparsable body), the list stored
\* before is left as it was.
C25_FailedFetchKeepsList ==
    [][settled' \in FailedOutcomes =>
          /\ Issued("projects") = -1 => projects' = projects
          /\ Issued("enhancements") = -1 => enhancements' = enhancements
          /\ Issued("repositories") = -1 => repositories' = repositories]_vars

\* C26: when a create-jam-session request fails (network error or non-2xx
\* response), formData and showCreateForm stay as they were, no jam-sessions
\* request is issued and loading returns to false; a 2xx response, and only
\* that, resets formData, hides the form and issues one jam-sessions
\* request.
C26_FailedCreateKeepsForm ==
    [][Issued("create-jam-session") = -1 =>
          IF settled' = "ok"
          THEN /\ formData' = InitialFormData
               /\ ~showCreateForm'
               /\ Issued("jam-sessions") = 1
          ELSE /\ formData' = formData
               /\ showCreateForm' = showCreateForm
               /\ Issued("jam-sessions") = 0
               /\ ~mjLoading']_vars

C26_Witness ==
    /\ settled = "network"
    /\ alert = "Failed to create jam session!"
    /\ InFlight("create-jam-session") = {}
    /\ showCreateForm
    /\ RequiredFilled
    /\ ~mjLoading

\* Deployments renders 'No repositories found or GitHub not connected.'
NoRepositoriesShown ==
    /\ Rendered("Deployments")
    /\ showRepos
    /\ Len(repositories) = 0

\* C27: in App.js the message 'No repositories found or GitHub not
\* connected.' is not shown while a repositories request is in flight.
C27_NoMessageWhileLoading ==
    (variant = "frontend" /\ NoRepositoriesShown) => InFlight("repositories") = {}

(***************************************************************************)
(* Emergent App: the connection indicators.                                *)
(***************************************************************************)
\* the order in which checkConnections tests the services
TestOrder == <<"backend", "github", "gemini">>

TestEndpoint(service) ==
    CASE service = "backend" -> "test"
      [] service = "github" -> "github-test"
      [] service = "gemini" -> "ai-test"

TestReq(i) == Req(TestEndpoint(TestOrder[i]), <<i>>, <<>>)

\* how the axios.get of a test ends: resolved with status 200 when the
\* service answers its test, resolved with another 2xx status or rejected
\* when it does not
TestOutcomes(service) == IF serviceUp[service] THEN {"200"} ELSE {"204", "error"}

\* checkConnections after one of its awaits: the indicator of the service
\* is set and the next test is sent, or the catch block ends the function
CheckConnectionsSettle(r, outcome) ==
    /\ r \in BagToSet(net)
    /\ \E i \in 1..Len(TestOrder) :
           /\ r = TestReq(i)
           /\ outcome \in TestOutcomes(TestOrder[i])
           /\ IF outcome = "error"
              THEN /\ net' = Drop(net, r)
                   /\ UNCHANGED connectionStatus
              ELSE /\ connectionStatus' =
                          [connectionStatus EXCEPT ![TestOrder[i]] = (outcome = "200")]
                   /\ net' = IF i < Len(TestOrder) THEN Send(Drop(net, r), TestReq(i + 1))
                             ELSE Drop(net, r)
    /\ Observe("none", outcome)
    /\ UNCHANGED <<serviceUp, commandVars, repoVars, dashboardVars, gatewayVars>>

\* after mount: the first test of checkConnections(), loadDeployments() and
\* loadCommandHistory() are in flight; any of the services may be down
InitConnections ==
    /\ variant = "emergent"
    /\ alert = "none"
    /\ settled = "none"
    /\ EmergentState
    /\ serviceUp \in [Services -> BOOLEAN]
    /\ GatewayInitial
    /\ AppInitial
    /\ DeploymentsInitial
    /\ DeploymentCenterInitial
    /\ MusicJamInitial
    /\ net = SetToBag({TestReq(1), DeploymentsReq, HistoryReq})

NextConnections ==
    \/ \E r \in BagToSet(net), o \in {"200", "204", "error"} : CheckConnectionsSettle(r, o)
    \/ \E r \in BagToSet(net), o \in AxiosOutcomes, p \in DeploymentPayloads :
           DeploymentsSettle(r, o, p)
    \/ \E r \in BagToSet(net), o \in AxiosOutcomes, p \in HistoryPayloads :
           HistorySettle(r, o, p)

SpecConnections == InitConnections /\ [][NextConnections]_vars

TestsInFlight == {r \in BagToSet(net) : \E i \in 1..Len(TestOrder) : r = TestReq(i)}

\* C28: once checkConnections has settled, the indicator of each service is
\* true exactly when that service answers its own test, whatever the other
\* two services do.
C28_IndicatorsIndependent ==
    TestsInFlight = {} =>
        \A service \in Services : connectionStatus[service] <=> serviceUp[service]

\* number of analyze-repository and autonomous-deploy requests in flight
RepoRequestsInFlight ==
    Copies("analyze-repository", net) + Copies("autonomous-deploy", net)

\* C29: at most one analyze-repository or autonomous-deploy request is in
\* flight at any time, and deploymentInProgress is true exactly while one
\* is, so it is false again once the request has settled, on the success
\* and on the failure path.
C29_FlagTracksRepoRequest ==
    /\ RepoRequestsInFlight <= 1
    /\ deploymentInProgress <=> RepoRequestsInFlight = 1

C29_Witness ==
    /\ settled = "error"
    /\ alert = "Repository analysis failed"
    /\ ~deploymentInProgress
    /\ RepoRequestsInFlight = 0

\* C30: loading is true until the overview request settles, is false from
\* then on and never true again; while it is true currentView is
\* "dashboard"; after a failed overview request empireStatus is still null.
C30_LoadingScreenEnds ==
    [][/\ loading' => (loading /\ currentView' = "dashboard")
       /\ Issued("overview") = -1 <=> (loading /\ ~loading')
       /\ (Issued("overview") = -1 /\ settled' \in FailedOutcomes) =>
              empireStatus' = Null]_vars

====
